---------------------------- MODULE Spec2Model ----------------------------
(***************************************************************************)
(* Distributed File JSON (dfjson): the encoder that splits a Go value into *)
(* a list of JSON files (Marshal / encodeState.encode) and the decoder     *)
(* that walks a directory tree and splices the files back into one or two  *)
(* JSON byte streams (Unmarshal / decodeState.decode), with the git        *)
(* conflict driver (dfgit.GitDriver).                                      *)
(*                                                                         *)
(* A byte string is a sequence of runes, each a one-character string.  A   *)
(* path is the sequence of its "/"-separated components: a path that ends  *)
(* in "/" has the empty string as its last component.                      *)
(***************************************************************************)
EXTENDS Integers, Sequences, FiniteSets, TLC

VARIABLES
    phase,             \* where the caller is: encode, indent, write, start, decode,
                       \* parse, done, error, panic
    fault,             \* why the call ended in an error or a panic ("none" while it has not)
    fsDirs,            \* the filesystem: the set of directories (paths)
    fsFiles,           \* the filesystem: file path -> bytes
    vscDriver,         \* decodeState.vscDriver: "nil" or "git"
    gitRepo,           \* the working copy's contested files: path -> [ours, theirs]
    conflictedFileMap, \* GitDriver.conflictedFileMap (a set of paths)
    buf,               \* decodeState.buf
    incomingBuf,       \* decodeState.incomingBuf
    hasMergeConflict,  \* decodeState.hasMergeConflict
    stack,             \* the active decode(path) calls, innermost last
    calls,             \* history: the driver and filesystem calls made so far
    cuts,              \* history: the truncations made so far
    parsed,            \* what json.Unmarshal stored through v
    incomingParsed,    \* what json.Unmarshal stored through incomingV
    marshalValue,      \* the v handed to Marshal (NoValue: nothing is encoded)
    Paths,             \* encodeState.Paths, then the list Marshal returns
    written            \* how many files of the list the caller has written

vars == <<phase, fault, fsDirs, fsFiles, vscDriver, gitRepo, conflictedFileMap,
          buf, incomingBuf, hasMergeConflict, stack, calls, cuts, parsed,
          incomingParsed, marshalValue, Paths, written>>

encVars == <<marshalValue, Paths, written>>

-----------------------------------------------------------------------------
(* Bounds of the model *)

\* the most directories a checked tree holds, the entry directory included
MaxDirs == 3

\* directory names (each also the JSON key the decoder writes for it)
DirNames == {"x", "y"}

-----------------------------------------------------------------------------
(* Byte strings *)

ObjEmpty == <<"{", "}">>
ObjA1 == <<"{", "\"", "a", "\"", ":", "1", "}">>
ObjA2 == <<"{", "\"", "a", "\"", ":", "2", "}">>
ObjNested == <<"{", "\"", "a", "\"", ":", "{", "}", "}">>
ObjA1C2 == <<"{", "\"", "a", "\"", ":", "1", ",", "\"", "c", "\"", ":", "2", "}">>

\* what a node's file may hold
FileContents == {ObjEmpty, ObjA1, ObjNested}

\* the (ours, theirs) pairs git may show for a contested file
ConflictPairs == {[ours |-> ObjA1, theirs |-> ObjA2],
                  [ours |-> ObjA1C2, theirs |-> ObjA1]}

NoDoc == "NoDoc"

-----------------------------------------------------------------------------
(* Paths *)

EntryDir == <<"D">>
EntryFilename == <<"D", "name.json">>

\* filepath.Dir: all but the last component
Dir(path) == SubSeq(path, 1, Len(path) - 1)

\* topDir + "/" + dir + "/index.json"
IndexPath(topDir, dir) == topDir \o <<dir, "index.json">>

\* the file of the node that lives in directory d
NodeFile(d) == IF d = EntryDir THEN EntryFilename ELSE d \o <<"index.json">>

-----------------------------------------------------------------------------
(* encoding/json's parser, as json.Unmarshal and json.Indent use it, for   *)
(* objects, strings and numbers.  A document is a record [t, m, v]: an     *)
(* object holds its members in m (key -> document), a string or a number   *)
(* its runes in v.                                                         *)

NoMembers == [k \in {} |-> NoDoc]
DocObj(m) == [t |-> "obj", m |-> m, v |-> <<>>]
DocStr(r) == [t |-> "str", m |-> NoMembers, v |-> r]
DocNum(r) == [t |-> "num", m |-> NoMembers, v |-> r]
DocNone == [t |-> "none", m |-> NoMembers, v |-> <<>>]

Digits == {"0", "1", "2", "3", "4", "5", "6", "7", "8", "9"}
IsSpace(c) == c \in {" ", "\t", "\r", "\n"}

ParseFail == [ok |-> FALSE, doc |-> DocNone, next |-> 0]
ParseOk(doc, next) == [ok |-> TRUE, doc |-> doc, next |-> next]

RECURSIVE SkipSpace(_, _)
SkipSpace(s, i) == IF i <= Len(s) /\ IsSpace(s[i]) THEN SkipSpace(s, i + 1) ELSE i

\* the index of the quote that closes the string opened before i, or 0
RECURSIVE StringEnd(_, _)
StringEnd(s, i) ==
    IF i > Len(s) THEN 0
    ELSE IF s[i] = "\"" THEN i
    ELSE IF s[i] = "\\" THEN StringEnd(s, i + 2)
    ELSE StringEnd(s, i + 1)

RECURSIVE NumberEnd(_, _)
NumberEnd(s, i) == IF i <= Len(s) /\ s[i] \in Digits THEN NumberEnd(s, i + 1) ELSE i

\* a member overrides an earlier one of the same key
PutMember(m, k, d) == [x \in DOMAIN m \cup {k} |-> IF x = k THEN d ELSE m[x]]

RECURSIVE ParseValue(_, _)
RECURSIVE ParseMembers(_, _, _)

ParseValue(s, i0) ==
    LET i == SkipSpace(s, i0) IN
    IF i > Len(s) THEN ParseFail
    ELSE IF s[i] = "{" THEN
        LET j == SkipSpace(s, i + 1) IN
        IF j <= Len(s) /\ s[j] = "}" THEN ParseOk(DocObj(NoMembers), j + 1)
        ELSE ParseMembers(s, j, NoMembers)
    ELSE IF s[i] = "\"" THEN
        LET e == StringEnd(s, i + 1) IN
        IF e = 0 THEN ParseFail ELSE ParseOk(DocStr(SubSeq(s, i + 1, e - 1)), e + 1)
    ELSE IF s[i] \in Digits THEN
        LET e == NumberEnd(s, i) IN ParseOk(DocNum(SubSeq(s, i, e - 1)), e)
    ELSE ParseFail

\* the members of an object from the key at i on, up to the closing brace
ParseMembers(s, i, m) ==
    IF i > Len(s) \/ s[i] # "\"" THEN ParseFail
    ELSE
    LET e == StringEnd(s, i + 1) IN
    IF e = 0 THEN ParseFail
    ELSE
    LET c == SkipSpace(s, e + 1) IN
    IF c > Len(s) \/ s[c] # ":" THEN ParseFail
    ELSE
    LET r == ParseValue(s, c + 1) IN
    IF ~r.ok THEN ParseFail
    ELSE
    LET n == SkipSpace(s, r.next)
        m2 == PutMember(m, SubSeq(s, i + 1, e - 1), r.doc)
    IN
    IF n > Len(s) THEN ParseFail
    ELSE IF s[n] = "}" THEN ParseOk(DocObj(m2), n + 1)
    ELSE IF s[n] = "," THEN ParseMembers(s, SkipSpace(s, n + 1), m2)
    ELSE ParseFail

\* json.Unmarshal(data, v): one value, with nothing but space after it
JsonParse(s) ==
    LET r == ParseValue(s, 1) IN
    IF r.ok /\ SkipSpace(s, r.next) > Len(s) THEN r ELSE ParseFail

JsonValid(s) == JsonParse(s).ok

-----------------------------------------------------------------------------
(* Go values, as reflect shows them to the encoder.  A value is a record   *)
(* [kind, n, s, fields, entries]: an int holds n, a string its runes s, a  *)
(* struct or a pointer to a struct its fields in declaration order, a map  *)
(* its entries in the order MapKeys returns them.                          *)

IntV(n) == [kind |-> "int", n |-> n, s |-> <<>>, fields |-> <<>>, entries |-> <<>>]
StringV(r) == [kind |-> "string", n |-> 0, s |-> r, fields |-> <<>>, entries |-> <<>>]
StructV(fs) == [kind |-> "struct", n |-> 0, s |-> <<>>, fields |-> fs, entries |-> <<>>]
PtrV(fs) == [kind |-> "ptr", n |-> 0, s |-> <<>>, fields |-> fs, entries |-> <<>>]
MapV(es) == [kind |-> "map", n |-> 0, s |-> <<>>, fields |-> <<>>, entries |-> es]
NoValue == [kind |-> "none", n |-> 0, s |-> <<>>, fields |-> <<>>, entries |-> <<>>]

Entry(k, v) == [key |-> k, value |-> v]

\* reflect.StructField and the field's value: Name, whether PkgPath is empty,
\* Anonymous, the json tag split at its commas (<<>> for no tag), the dfjson tag
Field(name, exported, anonymous, tag, dfjson, v) ==
    [Name |-> name, exported |-> exported, Anonymous |-> anonymous, tag |-> tag,
     dfjson |-> dfjson, value |-> v]

\* reflect.Value.Addr().Interface() of a struct: the pointer to it
Addr(v) == PtrV(v.fields)

\* strconv's decimal form of a non-negative int
DigitRune(d) ==
    CASE d = 0 -> "0" [] d = 1 -> "1" [] d = 2 -> "2" [] d = 3 -> "3" [] d = 4 -> "4"
      [] d = 5 -> "5" [] d = 6 -> "6" [] d = 7 -> "7" [] d = 8 -> "8" [] d = 9 -> "9"

RECURSIVE Itoa(_)
Itoa(n) == IF n < 10 THEN <<DigitRune(n)>> ELSE Itoa(n \div 10) \o <<DigitRune(n % 10)>>

\* the name before the first comma of the json tag, and the options after it
TagName(f) == IF f.tag = <<>> THEN "" ELSE f.tag[1]
TagOptions(f) == IF f.tag = <<>> THEN <<>> ELSE Tail(f.tag)
HasOption(f, opt) == \E k \in 1..Len(TagOptions(f)) : TagOptions(f)[k] = opt

\* lines 131-139: the tag's name, or the Go field name
JsonFieldName(f) == IF TagName(f) = "" THEN f.Name ELSE TagName(f)

\* lines 106-125: an unexported field is passed over, but for an embedded struct
SkipsUnexported(f) ==
    IF f.Anonymous
    THEN ~f.exported /\ f.value.kind \notin {"struct", "ptr"}
    ELSE ~f.exported

\* omitempty as encoding/json reads it: the field is left out only when
\* its value is empty
OmitsOnlyEmpty(f) ==
    /\ HasOption(f, "omitempty")
    /\ \/ f.value.kind = "int" /\ f.value.n = 0
       \/ f.value.kind = "string" /\ f.value.s = <<>>
       \/ f.value.kind = "map" /\ f.value.entries = <<>>

\* lines 126-129
SkipsDash(f) == f.tag = <<"-">>

\* lines 144-146: omitempty leaves the field out, whatever its value
SkipsOmitEmpty(f) == HasOption(f, "omitempty")

\* line 153
IsDistributable(f) == f.dfjson = "distributable"

\* encoding/json.Marshal of an inline value: ints, strings, and structs of
\* exported, plainly tagged fields (the inline values the model draws)
RECURSIVE JsonMarshal(_)
RECURSIVE JsonMarshalFields(_, _, _)
JsonMarshal(v) ==
    CASE v.kind = "int" -> Itoa(v.n)
      [] v.kind = "string" -> <<"\"">> \o v.s \o <<"\"">>
      [] v.kind \in {"struct", "ptr"} ->
            <<"{">> \o JsonMarshalFields(v.fields, 1, FALSE) \o <<"}">>

JsonMarshalFields(fs, i, first) ==
    IF i > Len(fs) THEN <<>>
    ELSE IF ~fs[i].exported \/ fs[i].tag = <<"-">>
    THEN JsonMarshalFields(fs, i + 1, first)
    ELSE (IF first THEN <<",">> ELSE <<>>)
         \o <<"\"", JsonFieldName(fs[i]), "\"", ":">> \o JsonMarshal(fs[i].value)
         \o JsonMarshalFields(fs, i + 1, TRUE)

\* line 82 (fmt.Sprintf("%v", key)) and line 80 (MarshalText): the key as a string
KeyString(k) == IF k.kind = "int" THEN Itoa(k.n)[1] ELSE k.s[1]

\* line 90-91: dir + "/" + keyStringValue + "/index.json"
MapEntryPath(path, keyStringValue) == Dir(path) \o <<keyStringValue, "index.json">>

\* line 160: filepath.Dir(path) + "/" + jsonFieldName + "/"
DistributedPath(path, jsonFieldName) == Dir(path) \o <<jsonFieldName, "">>

JSONFile(path, data) == [Path |-> path, Data |-> data]

\* the outcome of encode: state.Paths and the error ("nil" for none; a
\* panic is an outcome that ends the call)
EncodeResult(paths, err) == [Paths |-> paths, err |-> err]

\* lines 176-178: the closing brace of the struct's fragment
CloseFragment(b, hasWrittenFirstField) ==
    IF hasWrittenFirstField THEN b \o <<"}">> ELSE b

RECURSIVE encode(_, _, _)
RECURSIVE encodeEntries(_, _, _, _)
RECURSIVE encodeFields(_, _, _, _, _, _)

\* encodeState.encode(path, value), state.Paths being paths when it is called
encode(paths, path, value) ==
    CASE value.kind = "struct" -> EncodeResult(paths, "panic: must transform struct to pointer")
      [] value.kind = "map" -> encodeEntries(paths, path, value.entries, 1)
      [] value.kind = "ptr" -> encodeFields(paths, path, value.fields, 1, <<"{">>, FALSE)
      [] OTHER -> EncodeResult(paths, "panic: unhandled kind")

\* lines 71-95: the map's entries from the i-th on
encodeEntries(paths, path, es, i) ==
    IF i > Len(es) THEN EncodeResult(paths, "nil")
    ELSE IF es[i].value.kind = "struct"
    THEN \* mapValue.Addr() of a map element, which is not addressable
         EncodeResult(paths, "panic: reflect.Value.Addr of unaddressable value")
    ELSE LET r == encode(paths, MapEntryPath(path, KeyString(es[i].key)), es[i].value) IN
         IF r.err # "nil" THEN r ELSE encodeEntries(r.Paths, path, es, i + 1)

\* lines 102-182: the struct's fields from the i-th on, b the fragment so far
encodeFields(paths, path, fs, i, b, hasWrittenFirstField) ==
    IF i > Len(fs)
    THEN EncodeResult(Append(paths, JSONFile(path, CloseFragment(b, hasWrittenFirstField))),
                      "nil")
    ELSE
    LET f == fs[i] IN
    IF SkipsUnexported(f) \/ SkipsDash(f) \/ SkipsOmitEmpty(f)
    THEN encodeFields(paths, path, fs, i + 1, b, hasWrittenFirstField)
    ELSE IF HasOption(f, "string")
    THEN EncodeResult(paths, "panic: no support for string")
    ELSE IF IsDistributable(f)
    THEN LET data == IF f.value.kind = "struct" THEN Addr(f.value) ELSE f.value
             r == encode(paths, DistributedPath(path, JsonFieldName(f)), data)
         IN IF r.err # "nil" THEN r
            ELSE encodeFields(r.Paths, path, fs, i + 1, b, hasWrittenFirstField)
    ELSE IF ~f.exported
    THEN \* field.Interface() of an unexported (embedded) field
         EncodeResult(paths, "panic: reflect.Value.Interface of unexported field")
    ELSE encodeFields(paths, path, fs, i + 1,
                      b \o (IF hasWrittenFirstField THEN <<",">> ELSE <<>>)
                        \o <<"\"", JsonFieldName(f), "\"", ":">>
                        \o JsonMarshal(f.value),
                      TRUE)

\* json.Indent(&buf, data, "", "\t"): the bytes from the i-th on, appended to
\* out; needIndent and depth are Indent's, inString is its scanner inside a
\* string literal
RECURSIVE IndentFrom(_, _, _, _, _, _)
Newline(depth) == <<"\n">> \o [k \in 1..depth |-> "\t"]
IndentFrom(src, i, out, needIndent, depth, inString) ==
    IF i > Len(src) THEN out
    ELSE
    LET c == src[i] IN
    IF inString
    THEN IF c = "\\"
         THEN IndentFrom(src, i + 2, out \o SubSeq(src, i, i + 1), needIndent, depth, TRUE)
         ELSE IndentFrom(src, i + 1, Append(out, c), needIndent, depth, c # "\"")
    ELSE IF IsSpace(c)
    THEN IndentFrom(src, i + 1, out, needIndent, depth, FALSE)
    ELSE
    LET opens == needIndent /\ c # "}"
        d == IF opens THEN depth + 1 ELSE depth
        o == IF opens THEN out \o Newline(d) ELSE out
    IN
    IF c = "{" THEN IndentFrom(src, i + 1, Append(o, c), TRUE, d, FALSE)
    ELSE IF c = "," THEN IndentFrom(src, i + 1, Append(o, c) \o Newline(d), FALSE, d, FALSE)
    ELSE IF c = ":" THEN IndentFrom(src, i + 1, o \o <<":", " ">>, FALSE, d, FALSE)
    ELSE IF c = "}"
    THEN IF needIndent
         THEN IndentFrom(src, i + 1, Append(o, c), FALSE, d, FALSE)
         ELSE IndentFrom(src, i + 1, (o \o Newline(d - 1)) \o <<c>>, FALSE, d - 1, FALSE)
    ELSE IndentFrom(src, i + 1, Append(o, c), FALSE, d, c = "\"")

Indent(src) == IndentFrom(src, 1, <<>>, FALSE, 0, FALSE)

\* marshalIndent, lines 53-61: every item's Data indented; json.Indent's error
\* for data that is no complete JSON value
RECURSIVE IndentAll(_, _)
IndentAll(list, i) ==
    IF i > Len(list) THEN EncodeResult(list, "nil")
    ELSE IF ~JsonValid(list[i].Data)
    THEN EncodeResult(<<>>, "error: unexpected end of JSON input")
    ELSE IndentAll([list EXCEPT ![i].Data = Indent(list[i].Data)], i + 1)

-----------------------------------------------------------------------------
(* The filesystem and the working copy a decode may meet *)

NoFiles == [p \in {} |-> <<>>]
NoConflicts == [p \in {} |-> [ours |-> <<>>, theirs |-> <<>>]]

\* the directory trees of n directories, the entry directory their root
RECURSIVE TreesOfSize(_)
TreesOfSize(n) ==
    IF n = 1 THEN {{EntryDir}}
    ELSE UNION {{t \cup {y[1] \o <<y[2]>>} :
                    y \in {z \in t \X DirNames : (z[1] \o <<z[2]>>) \notin t}} :
                t \in TreesOfSize(n - 1)}

\* every tree of at most MaxDirs directories, and the tree without the entry directory
Trees == {{}} \cup UNION {TreesOfSize(n) : n \in 1..MaxDirs}

\* the files a tree may hold: any of its nodes' files, each with any content
FilesOf(t) == UNION {[{NodeFile(d) : d \in S} -> FileContents] : S \in SUBSET t}

\* the contested files of a working copy over the tree: none, or one node's file
ReposOf(t) ==
    {NoConflicts} \cup
    {[p \in {NodeFile(y[1])} |-> y[2]] : y \in t \X ConflictPairs}

-----------------------------------------------------------------------------
(* godirwalk.ReadDirents: the entries of a directory, in the order the     *)
(* filesystem lists them (any order)                                       *)

Dirents(topDir) ==
    {[name |-> d[Len(d)], isDir |-> TRUE] :
        d \in {e \in fsDirs : Len(e) = Len(topDir) + 1 /\ Dir(e) = topDir}}
    \cup
    {[name |-> p[Len(p)], isDir |-> FALSE] :
        p \in {q \in DOMAIN fsFiles : Dir(q) = topDir}}

Listings(S) ==
    {l \in [1..Cardinality(S) -> S] : \A i, j \in 1..Cardinality(S) : l[i] = l[j] => i = j}

-----------------------------------------------------------------------------
(* decodeState *)

\* bytes.Buffer.Truncate(n): all but the first n bytes are discarded
Truncate(b, n) == SubSeq(b, 1, n)

\* the scan of truncateLastBracket: the 0-based index of the last '}' of data, or -1
RECURSIVE ScanLastBracket(_, _, _)
ScanLastBracket(data, i, lastBracketIndex) ==
    IF i < Len(data)
    THEN ScanLastBracket(data, i + 1, IF data[i + 1] = "}" THEN i ELSE lastBracketIndex)
    ELSE lastBracketIndex

LastBracketIndex(data) == ScanLastBracket(data, 0, -1)

\* WriteAll, WriteRuneAll, WriteStringAll: the same bytes to both buffers
WriteAllBuf(b) == buf \o b

\* a write that reaches the primary buffer only
WriteAllPrimaryOnly(b) == incomingBuf

\* the same bytes to the incoming buffer
WriteAllIncoming(b) == incomingBuf \o b
WriteAll(b) ==
    /\ buf' = WriteAllBuf(b)
    /\ incomingBuf' = WriteAllIncoming(b)

\* the frame of a decode(path) call as it begins; start is history: the
\* length of buf when the call began
NewFrame(path, start) ==
    [path |-> path, pc |-> "source",
     hasOpenedBracket |-> FALSE, hasClosingBracket |-> FALSE,
     dirList |-> <<>>, i |-> 1, hasWrittenFirstField |-> FALSE,
     start |-> start]

Top == stack[Len(stack)]
SetTop(f) == [stack EXCEPT ![Len(stack)] = f]
Running(pc) == phase = "decode" /\ stack # <<>> /\ Top.pc = pc

\* a call in the history; list is what ReadDirents returned
Call(op, path) == [op |-> op, path |-> path, list |-> <<>>]
Listed(path, l) == [op |-> "ReadDirents", path |-> path, list |-> l]

\* a fatal end: the panic unwinds the call, nothing is returned
Panic(why) ==
    /\ phase' = "panic"
    /\ fault' = why

-----------------------------------------------------------------------------
(* Unmarshal *)

InitDecode ==
    /\ phase = "start"
    /\ fault = "none"
    /\ fsDirs \in Trees
    /\ fsFiles \in FilesOf(fsDirs)
    /\ vscDriver \in {"nil", "git"}
    /\ gitRepo \in (IF vscDriver = "nil" THEN {NoConflicts} ELSE ReposOf(fsDirs))
    /\ conflictedFileMap = {}
    /\ buf = <<>>
    /\ incomingBuf = <<>>
    /\ hasMergeConflict = FALSE
    /\ stack = <<>>
    /\ calls = <<>>
    /\ cuts = <<>>
    /\ parsed = DocNone
    /\ incomingParsed = DocNone
    /\ marshalValue = NoValue
    /\ Paths = <<>>
    /\ written = 0

\* v is not a pointer: an error before anything else is done
UnmarshalNotPointer ==
    /\ phase = "start"
    /\ phase' = "error"
    /\ fault' = "notpointer"
    /\ UNCHANGED <<fsDirs, fsFiles, vscDriver, gitRepo, conflictedFileMap, buf,
                   incomingBuf, hasMergeConflict, stack, calls, cuts, parsed,
                   incomingParsed>>
    /\ UNCHANGED encVars

\* vscDriver.Init() fails (git is missing, or a git command fails)
UnmarshalInitFails ==
    /\ phase = "start"
    /\ vscDriver # "nil"
    /\ phase' = "error"
    /\ fault' = "init"
    /\ calls' = Append(calls, Call("Init", <<>>))
    /\ UNCHANGED <<fsDirs, fsFiles, vscDriver, gitRepo, conflictedFileMap, buf,
                   incomingBuf, hasMergeConflict, stack, cuts, parsed,
                   incomingParsed>>
    /\ UNCHANGED encVars

\* filepath.Abs fails after the driver's Init
UnmarshalAbsFails ==
    /\ phase = "start"
    /\ phase' = "error"
    /\ fault' = "abs"
    /\ IF vscDriver # "nil"
       THEN /\ conflictedFileMap' = DOMAIN gitRepo
            /\ calls' = Append(calls, Call("Init", <<>>))
       ELSE UNCHANGED <<conflictedFileMap, calls>>
    /\ UNCHANGED <<fsDirs, fsFiles, vscDriver, gitRepo, buf, incomingBuf,
                   hasMergeConflict, stack, cuts, parsed, incomingParsed>>
    /\ UNCHANGED encVars

\* GitDriver.Init fills conflictedFileMap from git diff; state.decode begins
UnmarshalDecode ==
    /\ phase = "start"
    /\ phase' = "decode"
    /\ IF vscDriver # "nil"
       THEN /\ conflictedFileMap' = DOMAIN gitRepo
            /\ calls' = Append(calls, Call("Init", <<>>))
       ELSE UNCHANGED <<conflictedFileMap, calls>>
    /\ stack' = <<NewFrame(EntryFilename, 0)>>
    /\ UNCHANGED <<fault, fsDirs, fsFiles, vscDriver, gitRepo, buf, incomingBuf,
                   hasMergeConflict, cuts, parsed, incomingParsed>>
    /\ UNCHANGED encVars

\* json.Unmarshal of buf into v and, after a conflict, of incomingBuf into incomingV
UnmarshalParse ==
    /\ phase = "parse"
    /\ LET r == JsonParse(buf)
           ri == JsonParse(incomingBuf)
       IN
       IF ~r.ok THEN Panic("parse") /\ UNCHANGED <<parsed, incomingParsed>>
       ELSE IF hasMergeConflict /\ ~ri.ok
       THEN Panic("parseincoming") /\ parsed' = r.doc /\ UNCHANGED incomingParsed
       ELSE /\ phase' = "done"
            /\ parsed' = r.doc
            /\ incomingParsed' = IF hasMergeConflict THEN ri.doc ELSE incomingParsed
            /\ UNCHANGED fault
    /\ UNCHANGED <<fsDirs, fsFiles, vscDriver, gitRepo, conflictedFileMap, buf,
                   incomingBuf, hasMergeConflict, stack, calls, cuts>>
    /\ UNCHANGED encVars

-----------------------------------------------------------------------------
(* decodeState.decode(path), one step at a time *)


\* GitDriver.HandleFile(path, &state.buf, &state.incomingBuf)
Contested(path) == path \in conflictedFileMap

\* git show HEAD:path fails: nothing is written, the error panics
DecodeHandleFileOursFails ==
    /\ Running("source")
    /\ vscDriver # "nil"
    /\ Contested(Top.path)
    /\ Panic("vcs")
    /\ calls' = Append(calls, Call("HandleFile", Top.path))
    /\ UNCHANGED <<fsDirs, fsFiles, vscDriver, gitRepo, conflictedFileMap, buf,
                   incomingBuf, hasMergeConflict, stack, cuts, parsed,
                   incomingParsed>>
    /\ UNCHANGED encVars

\* git show MERGE_HEAD:path fails after ours was written: the error panics
DecodeHandleFileTheirsFails ==
    /\ Running("source")
    /\ vscDriver # "nil"
    /\ Contested(Top.path)
    /\ Panic("vcs")
    /\ buf' = buf \o gitRepo[Top.path].ours
    /\ calls' = Append(calls, Call("HandleFile", Top.path))
    /\ UNCHANGED <<fsDirs, fsFiles, vscDriver, gitRepo, conflictedFileMap,
                   incomingBuf, hasMergeConflict, stack, cuts, parsed,
                   incomingParsed>>
    /\ UNCHANGED encVars

\* the flag as the answer for the last node alone
MergeConflictOfLastNode(fileHandledByVCSDriver) == fileHandledByVCSDriver

\* lines 139-140: the flag once HandleFile has answered
MergeConflictAfter(fileHandledByVCSDriver) ==
    IF fileHandledByVCSDriver THEN TRUE ELSE hasMergeConflict

\* the driver's answer, and what decode does with it (lines 135-148)
DecodeHandleFile ==
    /\ Running("source")
    /\ vscDriver # "nil"
    /\ calls' = Append(calls, Call("HandleFile", Top.path))
    /\ IF Contested(Top.path)
       THEN /\ buf' = buf \o gitRepo[Top.path].ours
            /\ incomingBuf' = incomingBuf \o gitRepo[Top.path].theirs
            /\ hasMergeConflict' = MergeConflictAfter(TRUE)
            /\ stack' = SetTop([Top EXCEPT !.hasOpenedBracket = TRUE,
                                           !.hasClosingBracket = TRUE,
                                           !.pc = "open"])
       ELSE /\ stack' = SetTop([Top EXCEPT !.pc = "read"])
            /\ hasMergeConflict' = MergeConflictAfter(FALSE)
            /\ UNCHANGED <<buf, incomingBuf>>
    /\ UNCHANGED <<phase, fault, fsDirs, fsFiles, vscDriver, gitRepo,
                   conflictedFileMap, cuts, parsed, incomingParsed>>
    /\ UNCHANGED encVars

\* the file read whatever the driver was asked or answered
ReadsUnasked == Running("read") \/ Running("source")

\* the file is to be read: there is no driver, or the driver declined
AtRead == Running("read") \/ (Running("source") /\ vscDriver = "nil")

\* os.Open fails with an error that is not "does not exist"
DecodeOpenFails ==
    /\ AtRead
    /\ Panic("open")
    /\ calls' = Append(calls, Call("Open", Top.path))
    /\ UNCHANGED <<fsDirs, fsFiles, vscDriver, gitRepo, conflictedFileMap, buf,
                   incomingBuf, hasMergeConflict, stack, cuts, parsed,
                   incomingParsed>>
    /\ UNCHANGED encVars

\* ioutil.ReadAll fails on the opened file
DecodeReadAllFails ==
    /\ AtRead
    /\ Top.path \in DOMAIN fsFiles
    /\ Panic("readall")
    /\ calls' = Append(calls, Call("Open", Top.path))
    /\ UNCHANGED <<fsDirs, fsFiles, vscDriver, gitRepo, conflictedFileMap, buf,
                   incomingBuf, hasMergeConflict, stack, cuts, parsed,
                   incomingParsed>>
    /\ UNCHANGED encVars

\* lines 149-173: the file's bytes go to both buffers; a missing file is passed over
DecodeReadFile ==
    /\ AtRead
    /\ calls' = Append(calls, Call("Open", Top.path))
    /\ IF Top.path \in DOMAIN fsFiles
       THEN /\ WriteAll(fsFiles[Top.path])
            /\ stack' = SetTop([Top EXCEPT !.hasOpenedBracket = TRUE,
                                           !.hasClosingBracket = TRUE,
                                           !.pc = "open"])
       ELSE /\ stack' = SetTop([Top EXCEPT !.pc = "open"])
            /\ UNCHANGED <<buf, incomingBuf>>
    /\ UNCHANGED <<phase, fault, fsDirs, fsFiles, vscDriver, gitRepo,
                   conflictedFileMap, hasMergeConflict, cuts, parsed,
                   incomingParsed>>
    /\ UNCHANGED encVars

\* the opening bracket written for the nodes that already have one
OpensWhenOpened(f) == f.hasOpenedBracket

\* line 176 and line 220: whether decode writes the bracket itself
NeedsOpenBracket(f) == ~f.hasOpenedBracket
NeedsCloseBracket(f) == ~f.hasClosingBracket

\* line 211: "\"" + dir + "\":"
KeyBytes(dir) == <<"\"", dir, "\"", ":">>

\* lines 176-180
DecodeOpenBracket ==
    /\ Running("open")
    /\ IF NeedsOpenBracket(Top)
       THEN WriteAll(<<"{">>)
       ELSE UNCHANGED <<buf, incomingBuf>>
    /\ stack' = SetTop([Top EXCEPT !.pc = "readdir"])
    /\ UNCHANGED <<phase, fault, fsDirs, fsFiles, vscDriver, gitRepo,
                   conflictedFileMap, hasMergeConflict, calls, cuts, parsed,
                   incomingParsed>>
    /\ UNCHANGED encVars

\* godirwalk.ReadDirents fails: the directory does not exist ("notexist"),
\* or it cannot be listed for another reason
DecodeReadDirentsFails ==
    /\ Running("readdir")
    /\ \E why \in {"readdirnotexist", "readdir"} :
          /\ why = "readdirnotexist" <=> Dir(Top.path) \notin fsDirs
          /\ Panic(why)
    /\ calls' = Append(calls, Call("ReadDirents", Dir(Top.path)))
    /\ UNCHANGED <<fsDirs, fsFiles, vscDriver, gitRepo, conflictedFileMap, buf,
                   incomingBuf, hasMergeConflict, stack, cuts, parsed,
                   incomingParsed>>
    /\ UNCHANGED encVars

\* lines 184-190
DecodeReadDirents ==
    /\ Running("readdir")
    /\ Dir(Top.path) \in fsDirs
    /\ \E l \in Listings(Dirents(Dir(Top.path))) :
          /\ stack' = SetTop([Top EXCEPT !.dirList = l, !.i = 1,
                                         !.hasWrittenFirstField = FALSE,
                                         !.pc = "loop"])
          /\ calls' = Append(calls, Listed(Dir(Top.path), l))
    /\ UNCHANGED <<phase, fault, fsDirs, fsFiles, vscDriver, gitRepo,
                   conflictedFileMap, buf, incomingBuf, hasMergeConflict, cuts,
                   parsed, incomingParsed>>
    /\ UNCHANGED encVars

AtEntry == Running("loop") /\ Top.i <= Len(Top.dirList)

\* lines 192-194: an entry that is no directory is passed over
DecodeSkipFile ==
    /\ AtEntry
    /\ ~Top.dirList[Top.i].isDir
    /\ stack' = SetTop([Top EXCEPT !.i = @ + 1])
    /\ UNCHANGED <<phase, fault, fsDirs, fsFiles, vscDriver, gitRepo,
                   conflictedFileMap, buf, incomingBuf, hasMergeConflict, calls,
                   cuts, parsed, incomingParsed>>
    /\ UNCHANGED encVars

\* lines 195-198: a comma before every child but the first
DecodeComma ==
    /\ AtEntry
    /\ Top.dirList[Top.i].isDir
    /\ Top.hasWrittenFirstField
    /\ WriteAll(<<",">>)
    /\ stack' = SetTop([Top EXCEPT !.pc = "key"])
    /\ UNCHANGED <<phase, fault, fsDirs, fsFiles, vscDriver, gitRepo,
                   conflictedFileMap, hasMergeConflict, calls, cuts, parsed,
                   incomingParsed>>
    /\ UNCHANGED encVars

\* line 200, truncateLastBracket: both buffers are cut at the last '}' of buf;
\* bytes.Buffer.Truncate panics when incomingBuf is shorter than that
DecodeTruncate ==
    /\ AtEntry
    /\ Top.dirList[Top.i].isDir
    /\ ~Top.hasWrittenFirstField
    /\ LET lastBracketIndex == LastBracketIndex(buf) IN
       IF lastBracketIndex # -1
       THEN /\ buf' = Truncate(buf, lastBracketIndex)
            /\ cuts' = Append(cuts, [path |-> Top.path, index |-> lastBracketIndex,
                                     start |-> Top.start,
                                     closed |-> Top.hasClosingBracket])
            /\ IF lastBracketIndex > Len(incomingBuf)
               THEN /\ Panic("truncate")
                    /\ UNCHANGED <<incomingBuf, stack>>
               ELSE /\ incomingBuf' = Truncate(incomingBuf, lastBracketIndex)
                    /\ stack' = SetTop([Top EXCEPT !.pc = "splice"])
                    /\ UNCHANGED <<phase, fault>>
       ELSE /\ stack' = SetTop([Top EXCEPT !.pc = "key"])
            /\ UNCHANGED <<phase, fault, buf, incomingBuf, cuts>>
    /\ UNCHANGED <<fsDirs, fsFiles, vscDriver, gitRepo, conflictedFileMap,
                   hasMergeConflict, calls, parsed, incomingParsed>>
    /\ UNCHANGED encVars

\* lines 201-204: the comma that reopens the object
DecodeSplice ==
    /\ Running("splice")
    /\ WriteAll(<<",">>)
    /\ stack' = SetTop([Top EXCEPT !.hasClosingBracket = FALSE, !.pc = "key"])
    /\ UNCHANGED <<phase, fault, fsDirs, fsFiles, vscDriver, gitRepo,
                   conflictedFileMap, hasMergeConflict, calls, cuts, parsed,
                   incomingParsed>>
    /\ UNCHANGED encVars

\* lines 208-215: the directory's name as the key, then decode of its index.json
DecodeChild ==
    /\ Running("key")
    /\ LET dir == Top.dirList[Top.i].name IN
       /\ WriteAll(KeyBytes(dir))
       /\ stack' = Append(SetTop([Top EXCEPT !.pc = "call"]),
                          NewFrame(IndexPath(Dir(Top.path), dir),
                                   Len(buf) + Len(KeyBytes(dir))))
    /\ UNCHANGED <<phase, fault, fsDirs, fsFiles, vscDriver, gitRepo,
                   conflictedFileMap, hasMergeConflict, calls, cuts, parsed,
                   incomingParsed>>
    /\ UNCHANGED encVars

\* lines 220-224, and the return: the caller goes on at line 216
DecodeClose ==
    /\ Running("loop")
    /\ Top.i > Len(Top.dirList)
    /\ IF NeedsCloseBracket(Top)
       THEN WriteAll(<<"}">>)
       ELSE UNCHANGED <<buf, incomingBuf>>
    /\ IF Len(stack) = 1
       THEN /\ stack' = <<>>
            /\ phase' = "parse"
       ELSE /\ LET caller == stack[Len(stack) - 1] IN
               stack' = [SubSeq(stack, 1, Len(stack) - 1) EXCEPT ![Len(stack) - 1] =
                            [caller EXCEPT !.hasWrittenFirstField = TRUE,
                                           !.i = @ + 1, !.pc = "loop"]]
            /\ UNCHANGED phase
    /\ UNCHANGED <<fault, fsDirs, fsFiles, vscDriver, gitRepo, conflictedFileMap,
                   hasMergeConflict, calls, cuts, parsed, incomingParsed>>
    /\ UNCHANGED encVars

-----------------------------------------------------------------------------
(* The values Marshal is given *)

\* the most fields a drawn struct has
MaxFields == 2

\* the structs that map entries and distributed struct fields hold
LeafC == <<Field("C", TRUE, FALSE, <<"c">>, "", IntV(2))>>
LeafZ == <<Field("Z", TRUE, FALSE, <<"z">>, "", IntV(9))>>
LeafW == <<Field("C", TRUE, FALSE, <<"c">>, "", IntV(2)),
           Field("W", TRUE, FALSE, <<"w", "omitempty">>, "", IntV(7))>>
InnerStructs == {LeafC, LeafW, <<>>}

StrX == StringV(<<"x">>)
StrY == StringV(<<"y">>)
StrK == StringV(<<"k">>)

\* fields written inline
InlineFields ==
    {Field("A", TRUE, FALSE, <<"a">>, "", IntV(1)),
     Field("S", TRUE, FALSE, <<>>, "", StringV(<<"s">>)),
     Field("O", TRUE, FALSE, <<"o">>, "", StructV(LeafC))}

\* fields tagged dfjson:"distributable": maps of struct pointers, a struct
DistributedFields ==
    {Field("M", TRUE, FALSE, <<"m">>, "distributable", MapV(<<Entry(StrX, PtrV(s))>>)) :
        s \in InnerStructs}
    \cup
    {Field("M", TRUE, FALSE, <<"m">>, "distributable",
           MapV(<<Entry(StrX, PtrV(LeafC)), Entry(StrY, PtrV(LeafC))>>)),
     Field("M", TRUE, FALSE, <<"m">>, "distributable",
           MapV(<<Entry(StrY, PtrV(LeafC)), Entry(StrX, PtrV(LeafC))>>)),
     Field("N", TRUE, FALSE, <<"n">>, "distributable",
           MapV(<<Entry(IntV(1), PtrV(LeafC))>>)),
     Field("E", TRUE, FALSE, <<"e">>, "distributable", MapV(<<>>)),
     Field("D", TRUE, FALSE, <<"d">>, "distributable", StructV(LeafC))}

\* fields the encoder has no support for
UnsupportedFields ==
    {Field("M", TRUE, FALSE, <<"m">>, "distributable",
           MapV(<<Entry(StrX, StructV(LeafC))>>)),
     Field("I", TRUE, FALSE, <<"i">>, "distributable", IntV(1)),
     Field("Q", TRUE, FALSE, <<"q", "string">>, "", IntV(1)),
     Field("u", FALSE, TRUE, <<>>, "", StructV(LeafC))}

\* what an excluded field may hold, and how it may be tagged for distribution
ExcludedPayloads ==
    {[dfjson |-> "", value |-> IntV(7)],
     [dfjson |-> "distributable", value |-> MapV(<<Entry(StrK, PtrV(LeafZ))>>)],
     [dfjson |-> "distributable", value |-> StructV(LeafZ)]}

\* excluded fields: tagged "-", tagged omitempty, unexported, and an
\* embedded field of an unexported type that is no struct
ExcludedFields ==
    UNION {{Field("W", TRUE, FALSE, <<"-">>, p.dfjson, p.value),
            Field("W", TRUE, FALSE, <<"w", "omitempty">>, p.dfjson, p.value),
            Field("w", FALSE, FALSE, <<"w">>, p.dfjson, p.value)} :
           p \in ExcludedPayloads}
    \cup {Field("w", FALSE, TRUE, <<>>, "", IntV(7))}

FieldCatalogue == InlineFields \cup DistributedFields \cup UnsupportedFields
                     \cup ExcludedFields

\* the structs of at most MaxFields catalogue fields, their Go names distinct
Structs ==
    {fs \in UNION {[1..k -> FieldCatalogue] : k \in 0..MaxFields} :
        \A i, j \in 1..Len(fs) : fs[i].Name = fs[j].Name => i = j}

InlineA == Field("A", TRUE, FALSE, <<"a">>, "", IntV(1))
WithMap == <<InlineA, Field("M", TRUE, FALSE, <<"m">>, "distributable",
                            MapV(<<Entry(StrX, PtrV(LeafC))>>))>>

\* maps at the top: of struct pointers that hold distributed maps themselves
TopMaps ==
    {MapV(<<Entry(StrX, PtrV(fs))>>) : fs \in {LeafC, WithMap, <<>>}}
    \cup {MapV(<<Entry(StrX, PtrV(WithMap)), Entry(StrY, PtrV(WithMap))>>),
          MapV(<<Entry(StrX, PtrV(LeafC)), Entry(StrY, PtrV(LeafC))>>),
          MapV(<<>>)}

Values == {PtrV(fs) : fs \in Structs} \cup TopMaps \cup {StructV(LeafC), IntV(1)}

-----------------------------------------------------------------------------
(* Marshal, and the caller that writes the files and calls Unmarshal *)

InitEncode ==
    /\ phase = "encode"
    /\ fault = "none"
    /\ fsDirs = {EntryDir}
    /\ fsFiles = NoFiles
    /\ vscDriver = "nil"
    /\ gitRepo = NoConflicts
    /\ conflictedFileMap = {}
    /\ buf = <<>>
    /\ incomingBuf = <<>>
    /\ hasMergeConflict = FALSE
    /\ stack = <<>>
    /\ calls = <<>>
    /\ cuts = <<>>
    /\ parsed = DocNone
    /\ incomingParsed = DocNone
    /\ marshalValue \in Values
    /\ Paths = <<>>
    /\ written = 0

decVars == <<fsDirs, fsFiles, vscDriver, gitRepo, conflictedFileMap, buf,
             incomingBuf, hasMergeConflict, stack, calls, cuts, parsed,
             incomingParsed>>

\* marshal, lines 37-43: state.encode(entryFilename, v) fills state.Paths
MarshalEncode ==
    /\ phase = "encode"
    /\ LET r == encode(<<>>, EntryFilename, marshalValue) IN
       IF r.err = "nil"
       THEN /\ Paths' = r.Paths
            /\ phase' = "indent"
            /\ UNCHANGED fault
       ELSE /\ Paths' = <<>>
            /\ Panic(r.err)
    /\ UNCHANGED <<marshalValue, written>>
    /\ UNCHANGED decVars

\* marshalIndent, lines 53-61: the list with every Data indented, or the error
MarshalIndent ==
    /\ phase = "indent"
    /\ LET r == IndentAll(Paths, 1) IN
       IF r.err = "nil"
       THEN /\ Paths' = r.Paths
            /\ phase' = "write"
            /\ UNCHANGED fault
       ELSE /\ Paths' = <<>>
            /\ phase' = "error"
            /\ fault' = r.err
    /\ UNCHANGED <<marshalValue, written>>
    /\ UNCHANGED decVars

\* the directories a file at path lies in
DirsAbove(path) == {SubSeq(path, 1, k) : k \in 1..(Len(path) - 1)}

\* the caller writes the next file of the list at its Path; a Path that
\* ends in "/" names a directory, and no file can be written there
WriteFile ==
    /\ phase = "write"
    /\ written < Len(Paths)
    /\ LET item == Paths[written + 1] IN
       IF item.Path[Len(item.Path)] = ""
       THEN /\ phase' = "error"
            /\ fault' = "write"
            /\ UNCHANGED <<fsDirs, fsFiles, written>>
       ELSE /\ fsDirs' = fsDirs \cup DirsAbove(item.Path)
            /\ fsFiles' = [q \in DOMAIN fsFiles \cup {item.Path} |->
                              IF q = item.Path THEN item.Data ELSE fsFiles[q]]
            /\ written' = written + 1
            /\ UNCHANGED <<phase, fault>>
    /\ UNCHANGED <<marshalValue, Paths>>
    /\ UNCHANGED <<vscDriver, gitRepo, conflictedFileMap, buf, incomingBuf,
                   hasMergeConflict, stack, calls, cuts, parsed, incomingParsed>>

\* every file is written: the caller goes on to Unmarshal(entryFilename, ...)
CallUnmarshal ==
    /\ phase = "write"
    /\ written = Len(Paths)
    /\ phase' = "start"
    /\ UNCHANGED <<fault, marshalValue, Paths, written>>
    /\ UNCHANGED decVars

-----------------------------------------------------------------------------

Init == InitDecode \/ InitEncode

Next ==
    \/ MarshalEncode
    \/ MarshalIndent
    \/ WriteFile
    \/ CallUnmarshal
    \/ UnmarshalNotPointer
    \/ UnmarshalInitFails
    \/ UnmarshalAbsFails
    \/ UnmarshalDecode
    \/ DecodeHandleFileOursFails
    \/ DecodeHandleFileTheirsFails
    \/ DecodeHandleFile
    \/ DecodeOpenFails
    \/ DecodeReadAllFails
    \/ DecodeReadFile
    \/ DecodeOpenBracket
    \/ DecodeReadDirentsFails
    \/ DecodeReadDirents
    \/ DecodeSkipFile
    \/ DecodeComma
    \/ DecodeTruncate
    \/ DecodeSplice
    \/ DecodeChild
    \/ DecodeClose
    \/ UnmarshalParse

Spec == Init /\ [][Next]_vars

-----------------------------------------------------------------------------
(* What the claims speak of *)

\* the call has ended: with a result, with an error, or in a panic
Ended == phase \in {"done", "error", "panic"}

\* decode has returned to Unmarshal
Returned == phase \in {"parse", "done"}

\* ends that the environment causes: a bad argument, a failing driver, a
\* filesystem error that is not "does not exist"
EnvFaults == {"notpointer", "abs", "init", "open", "readall", "readdir", "vcs"}

\* the subdirectories of directory d
SubDirs(d) == {e \in fsDirs : Len(e) = Len(d) + 1 /\ Dir(e) = d}

\* the document a value stands for: a struct's fields by their JSON names
\* (the excluded ones left out), a map's entries by their keys
RECURSIVE DocOf(_)
DocOf(v) ==
    CASE v.kind = "int" -> DocNum(Itoa(v.n))
      [] v.kind = "string" -> DocStr(v.s)
      [] v.kind \in {"struct", "ptr"} ->
            LET kept == {k \in 1..Len(v.fields) :
                            /\ v.fields[k].exported
                            /\ v.fields[k].tag # <<"-">>
                            /\ ~HasOption(v.fields[k], "omitempty")}
            IN DocObj([key \in {<<JsonFieldName(v.fields[k])>> : k \in kept} |->
                         DocOf(v.fields[CHOOSE k \in kept :
                                           <<JsonFieldName(v.fields[k])>> = key].value)])
      [] v.kind = "map" ->
            DocObj([key \in {<<KeyString(v.entries[k].key)>> : k \in 1..Len(v.entries)} |->
                      DocOf(v.entries[CHOOSE k \in 1..Len(v.entries) :
                                         <<KeyString(v.entries[k].key)>> = key].value)])
      [] OTHER -> DocNone

\* a supported document value, read narrowly: a struct pointer or a map; a
\* struct has at least one inline field, each field an inline scalar, an
\* inline nested object or a distributed map or struct, none of them excluded;
\* a map has at least one entry and its entries are pointers to structs
RECURSIVE SupportedNode(_)
SupportedNode(v) ==
    CASE v.kind \in {"struct", "ptr"} ->
            /\ \E k \in 1..Len(v.fields) : v.fields[k].dfjson = ""
            /\ \A k \in 1..Len(v.fields) :
                  LET f == v.fields[k] IN
                  /\ f.exported /\ ~f.Anonymous
                  /\ f.tag # <<"-">> /\ TagOptions(f) = <<>>
                  /\ IF f.dfjson = "distributable"
                     THEN f.value.kind \in {"map", "struct", "ptr"}
                             /\ SupportedNode(f.value)
                     ELSE f.value.kind \in {"int", "string", "struct"}
      [] v.kind = "map" ->
            /\ v.entries # <<>>
            /\ \A k \in 1..Len(v.entries) :
                  v.entries[k].value.kind = "ptr" /\ SupportedNode(v.entries[k].value)
      [] OTHER -> FALSE

SupportedValue(v) == v.kind \in {"ptr", "map"} /\ SupportedNode(v)

\* C1: Round-trip.  For every supported value V, once Marshal's files are
\* written to an empty tree and Unmarshal has run over them without a
\* conflict source, the call has ended with a result and the primary stream
\* has parsed to V's document.
C1_RoundTrip ==
    (marshalValue # NoValue /\ SupportedValue(marshalValue) /\ Ended
       /\ fault \notin EnvFaults)
    => (phase = "done" /\ parsed = DocOf(marshalValue))

\* C2: No-conflict identity.  With no conflict source, or one that declines
\* every path, the two buffers are equal in every state (after every append
\* and every truncation, and at return), and hasMergeConflict is false.
C2_NoConflictIdentity ==
    (vscDriver = "nil" \/ DOMAIN gitRepo = {})
    => (buf = incomingBuf /\ ~hasMergeConflict)

C2_Witness ==
    /\ vscDriver = "git" /\ DOMAIN gitRepo = {}
    /\ phase = "done"
    /\ cuts # <<>>
    /\ Len(buf) > Len(ObjA1)

\* the document the tree under directory d stands for: the members of the
\* node's file, and one member per subdirectory, keyed by its name
RECURSIVE RefDoc(_)
RefDoc(d) ==
    LET own == IF NodeFile(d) \in DOMAIN fsFiles
               THEN JsonParse(fsFiles[NodeFile(d)]).doc.m
               ELSE NoMembers
        subs == {<<e[Len(e)]>> : e \in SubDirs(d)}
    IN DocObj([key \in DOMAIN own \cup subs |->
                 IF key \in subs THEN RefDoc(d \o key) ELSE own[key]])

IsDirEntry(e) == e.isDir
EntryListing ==
    LET k == CHOOSE k \in 1..Len(calls) :
                calls[k].op = "ReadDirents" /\ calls[k].path = EntryDir
    IN SelectSeq(calls[k].list, IsDirEntry)

\* "x1":{},...,"xn":{} from the i-th name on
RECURSIVE EmptyMembers(_, _)
EmptyMembers(l, i) ==
    IF i > Len(l) THEN <<>>
    ELSE (IF i > 1 THEN <<",">> ELSE <<>>)
         \o <<"\"", l[i].name, "\"", ":", "{", "}">> \o EmptyMembers(l, i + 1)

\* a subdirectory that decodes to {}: nothing below it, its index.json
\* missing or holding {}, and not contested
DecodesEmpty(d) ==
    /\ SubDirs(d) = {}
    /\ NodeFile(d) \notin DOMAIN gitRepo
    /\ NodeFile(d) \in DOMAIN fsFiles => fsFiles[NodeFile(d)] = ObjEmpty

\* C4: Empty entry.  When the entry file does not exist (and is not
\* contested) and every subdirectory of the entry directory decodes to {},
\* the primary stream decode returns is {"x1":{},...,"xn":{}} in listing
\* order, and {} for no subdirectory.
C4_EmptyEntry ==
    (/\ Returned
     /\ EntryFilename \notin DOMAIN fsFiles
     /\ EntryFilename \notin DOMAIN gitRepo
     /\ \A d \in SubDirs(EntryDir) : DecodesEmpty(d))
    => buf = <<"{">> \o EmptyMembers(EntryListing, 1) \o <<"}">>

C4_Witness ==
    /\ phase = "done"
    /\ EntryFilename \notin DOMAIN fsFiles
    /\ EntryFilename \notin DOMAIN gitRepo
    /\ Cardinality(SubDirs(EntryDir)) = 2
    /\ \A d \in SubDirs(EntryDir) : DecodesEmpty(d)
    /\ \E d \in SubDirs(EntryDir) : NodeFile(d) \in DOMAIN fsFiles
    /\ \E d \in SubDirs(EntryDir) : NodeFile(d) \notin DOMAIN fsFiles
    /\ Len(buf) = 2 + 6 + 1 + 6

\* HandleFile has reported a visited node contested
ReportedContested ==
    \E k \in 1..Len(calls) :
        calls[k].op = "HandleFile" /\ calls[k].path \in DOMAIN gitRepo

\* C5: Conflict propagation.  At return hasMergeConflict is true exactly
\* when HandleFile reported a visited node contested; and when the entry
\* file is contested and its directory has no subdirectory, the primary
\* stream is ours and the incoming stream is theirs, the file was never
\* opened and no bracket was added.
C5_ConflictPropagation ==
    Returned =>
        /\ hasMergeConflict <=> ReportedContested
        /\ (vscDriver # "nil" /\ EntryFilename \in DOMAIN gitRepo
              /\ SubDirs(EntryDir) = {})
           => /\ buf = gitRepo[EntryFilename].ours
              /\ incomingBuf = gitRepo[EntryFilename].theirs
              /\ \A k \in 1..Len(calls) :
                    ~(calls[k].op = "Open" /\ calls[k].path = EntryFilename)

C5_Witness ==
    /\ phase = "done"
    /\ hasMergeConflict
    /\ EntryFilename \in DOMAIN gitRepo
    /\ EntryFilename \in DOMAIN fsFiles
    /\ SubDirs(EntryDir) = {}
    /\ buf = ObjA1 /\ incomingBuf = ObjA2

\* a field the encoder is to leave out
Excluded(f) == ~f.exported \/ f.tag = <<"-">> \/ HasOption(f, "omitempty")

\* every name, key and scalar rune a value is made of
RECURSIVE RunesOf(_)
RunesOf(v) ==
    CASE v.kind = "int" -> {Itoa(v.n)[j] : j \in 1..Len(Itoa(v.n))}
      [] v.kind = "string" -> {v.s[j] : j \in 1..Len(v.s)}
      [] v.kind \in {"struct", "ptr"} ->
            UNION {({v.fields[k].Name, TagName(v.fields[k])} \ {"", "-"})
                      \cup RunesOf(v.fields[k].value) : k \in 1..Len(v.fields)}
      [] v.kind = "map" ->
            UNION {RunesOf(v.entries[k].key) \cup RunesOf(v.entries[k].value) :
                      k \in 1..Len(v.entries)}
      [] OTHER -> {}

\* the name and the value of a field
FieldRunes(f) == ({f.Name, TagName(f)} \ {"", "-"}) \cup RunesOf(f.value)

\* the excluded fields of the structs encode walks: the value's own, and
\* those of the structs it distributes
RECURSIVE ExcludedOf(_)
ExcludedOf(v) ==
    CASE v.kind \in {"struct", "ptr"} ->
            {v.fields[k] : k \in {j \in 1..Len(v.fields) : Excluded(v.fields[j])}}
            \cup UNION {ExcludedOf(v.fields[k].value) :
                           k \in {j \in 1..Len(v.fields) :
                                     /\ ~Excluded(v.fields[j])
                                     /\ v.fields[j].dfjson = "distributable"}}
      [] v.kind = "map" ->
            UNION {ExcludedOf(v.entries[k].value) : k \in 1..Len(v.entries)}
      [] OTHER -> {}

\* C6: Exclusion.  For every struct encoded, an excluded field (unexported,
\* tagged json:"-", or carrying omitempty) contributes nothing: its name and
\* its value appear in no artifact's bytes, no artifact has a path derived
\* from it, distributable or not, and the reconstructed document has no
\* such field.
C6_Exclusion ==
    \A f \in ExcludedOf(marshalValue) :
        /\ \A i \in 1..Len(Paths) :
              /\ \A j \in 1..Len(Paths[i].Data) : Paths[i].Data[j] \notin FieldRunes(f)
              /\ \A j \in 1..Len(Paths[i].Path) : Paths[i].Path[j] \notin FieldRunes(f)
        /\ \A q \in DOMAIN fsFiles : \A j \in 1..Len(q) : q[j] \notin FieldRunes(f)
        /\ phase = "done" => <<JsonFieldName(f)>> \notin DOMAIN parsed.m

C6_Witness ==
    /\ phase = "done"
    /\ Paths # <<>>
    /\ parsed = DocOf(marshalValue)
    /\ \E f \in ExcludedOf(marshalValue) :
          /\ f.dfjson = "distributable"
          /\ HasOption(f, "omitempty")
          /\ f.value.kind = "map" /\ f.value.entries # <<>>

\* C7: Artifact validity.  Every artifact in the list the encoder returns
\* has bytes that, parsed alone, are a complete valid JSON object, also for
\* a struct with no inline field.
C7_ArtifactValidity ==
    \A i \in 1..Len(Paths) :
        /\ JsonParse(Paths[i].Data).ok
        /\ JsonParse(Paths[i].Data).doc.t = "obj"

\* C8: On-disk layout.  With entry path D/name.json, every artifact of a
\* child keyed K (a map entry or a distributable field, map or struct) is at
\* D/K/index.json, recursively: every artifact path is the entry path or
\* ends in index.json below named directories.
C8_OnDiskLayout ==
    \A i \in 1..Len(Paths) :
        LET p == Paths[i].Path IN
        \/ p = EntryFilename
        \/ /\ Len(p) >= 3
           /\ p[1] = EntryDir[1]
           /\ p[Len(p)] = "index.json"
           /\ \A j \in 2..(Len(p) - 1) : p[j] # ""

\* C9: Not-found is not an error.  When the only failing filesystem
\* condition is "does not exist", decode does not end fatally: no call ends
\* in a panic raised by a "does not exist" condition.
C9_NotFoundNotFatal == ~(phase = "panic" /\ fault = "readdirnotexist")

\* C10: Truncation safety.  Every truncation is made for a node whose
\* brackets were closed by source resolution, and cuts at that node's own
\* closing brace: never below the length the buffer had when the node's
\* decode began.
C10_TruncationSafety ==
    \A k \in 1..Len(cuts) :
        /\ cuts[k].closed
        /\ cuts[k].index >= cuts[k].start


\* object bytes o spliced with the entry directory's subdirectories: o's
\* members, and one member per subdirectory
SplicedDoc(o) ==
    LET own == JsonParse(o).doc.m
        subs == {<<e[Len(e)]>> : e \in SubDirs(EntryDir)}
    IN DocObj([key \in DOMAIN own \cup subs |->
                 IF key \in subs THEN RefDoc(EntryDir \o key) ELSE own[key]])

\* the entry file alone is contested, with complete objects on both sides,
\* and the entry directory has subdirectories
ContestedEntryWithChildren ==
    /\ vscDriver # "nil"
    /\ DOMAIN gitRepo = {EntryFilename}
    /\ JsonValid(gitRepo[EntryFilename].ours)
    /\ JsonValid(gitRepo[EntryFilename].theirs)
    /\ SubDirs(EntryDir) # {}

\* C11: Lock-step splice under conflict.  When the entry node is contested
\* with ours = A and theirs = B, complete objects of possibly different
\* lengths, and has subdirectories: the reopening cuts the primary stream at
\* A's closing brace and the incoming stream at B's, no truncation is out of
\* range, and at return the primary stream is A spliced with the children
\* and the incoming stream is B spliced with the same children, each a
\* well-formed JSON object.
C11_LockStepSplice ==
    ContestedEntryWithChildren =>
        /\ fault # "truncate"
        /\ \A k \in 1..Len(cuts) :
              cuts[k].path = EntryFilename =>
                 /\ cuts[k].index = Len(gitRepo[EntryFilename].ours) - 1
                 /\ cuts[k].index = Len(gitRepo[EntryFilename].theirs) - 1
        /\ phase = "parse" =>
              /\ JsonParse(buf).ok
              /\ JsonParse(buf).doc = SplicedDoc(gitRepo[EntryFilename].ours)
              /\ JsonParse(incomingBuf).ok
              /\ JsonParse(incomingBuf).doc = SplicedDoc(gitRepo[EntryFilename].theirs)

\* the same with A and B of one length, where the single cut index is the
\* closing brace of both: the streams are spliced in step
C11_EqualLengthSplice ==
    /\ phase = "done"
    /\ ContestedEntryWithChildren
    /\ Len(gitRepo[EntryFilename].ours) = Len(gitRepo[EntryFilename].theirs)
    /\ parsed = SplicedDoc(gitRepo[EntryFilename].ours)
    /\ incomingParsed = SplicedDoc(gitRepo[EntryFilename].theirs)
    /\ parsed # incomingParsed


\* the positions in the call history of the calls op(path)
CallsOf(op, path) ==
    {k \in 1..Len(calls) : calls[k].op = op /\ calls[k].path = path}

\* C12: Conflict-source call protocol.  Within one Unmarshal call with a
\* conflict source: Init is called exactly once, before any HandleFile call,
\* and when it fails nothing else is called; every visited node has exactly
\* one HandleFile call with its path, before any filesystem read of that
\* path or of its directory; a file is read only if HandleFile declined it;
\* and no path is visited twice.
C12_CallProtocol ==
    vscDriver # "nil" =>
        /\ \A k \in 1..Len(calls) : calls[k].op = "Init" <=> k = 1
        /\ phase \in {"decode", "parse", "done", "panic"} => calls # <<>>
        /\ fault = "init" => Len(calls) = 1
        /\ \A k \in 1..Len(calls) :
              /\ calls[k].op # "Init" =>
                    CallsOf(calls[k].op, calls[k].path) = {k}
              /\ calls[k].op = "Open" =>
                    /\ \E j \in CallsOf("HandleFile", calls[k].path) : j < k
                    /\ calls[k].path \notin DOMAIN gitRepo
              /\ calls[k].op = "ReadDirents" =>
                    \E j \in 1..(k - 1) :
                        /\ calls[j].op = "HandleFile"
                        /\ Dir(calls[j].path) = calls[k].path
        /\ Returned =>
              /\ Cardinality(CallsOf("HandleFile", EntryFilename)) = 1
              /\ \A k \in 1..Len(calls) :
                    calls[k].op = "ReadDirents" =>
                       \A e \in 1..Len(calls[k].list) :
                          calls[k].list[e].isDir =>
                             \E j \in CallsOf("HandleFile",
                                              IndexPath(calls[k].path, calls[k].list[e].name)) :
                                j > k

C12_Witness ==
    /\ phase = "done"
    /\ vscDriver # "nil"
    /\ Cardinality({k \in 1..Len(calls) : calls[k].op = "HandleFile"}) = 3
    /\ \E k \in 1..Len(calls) :
          calls[k].op = "HandleFile" /\ calls[k].path \in DOMAIN gitRepo
    /\ \E k \in 1..Len(calls) : calls[k].op = "Open"
    /\ \E k \in 1..Len(calls) :
          calls[k].op = "ReadDirents" /\ Len(calls[k].path) = 2

=============================================================================
